---- MODULE Spec2Model ----
(***************************************************************************)
(* The inventory reservation protocol of album-store.                      *)
(*                                                                         *)
(* inventory-service/kafka_consumer.go runs two consuming loops            *)
(* (startOrderConsumer, startAlbumCreatedConsumer) against one PostgreSQL  *)
(* table `inventory` and publishes order-succeeded / order-failed events.  *)
(* The broker and the storage engine are the environment: a topic is a     *)
(* single-partition log with a committed group offset, and an UPDATE       *)
(* inside a transaction holds the row until the transaction ends (READ     *)
(* COMMITTED).                                                             *)
(***************************************************************************)
EXTENDS Integers, Sequences, FiniteSets, Bags, TLC

\* ---------------------------------------------------------------- bounds
NumReplicas == 2      \* replicas of inventory-service
MaxOrderMsgs == 2     \* messages ever published to order-created
MaxAlbumMsgs == 2     \* messages ever published to album-created
MaxMsgs == 3          \* messages ever published to the two inbound topics together
MaxFaults == 1        \* crashes / rebalances of the order consumer group
MaxRedeliveryMsgs == 1 \* messages on order-created while faults are injected
NumCallers == 2       \* concurrent callers of reserveInventory
MaxReserveCalls == 2  \* calls of reserveInventory ever made
MaxOutcomeMsgs == 2   \* messages on the outcome topics when others write to them

\* ---------------------------------------------------------------- values
Replicas == 1..NumReplicas
Albums == {"A", "B"}
NoReplica == 0
Callers == 1..NumCallers

\* the quantities that occur in events and requests: negative, zero, one
\* unit, several units
Quantities == {0 - 1, 0, 1, 2}

\* the stock an item has been bootstrapped with
Stocks == {0, 1, 2}

orderFailedTopic == "order-failed"
orderSucceededTopic == "order-succeeded"

VARIABLES
  inventory,        \* table inventory: album_id -> quantity_available, rows that exist
  rowLock,          \* album_id -> replica whose open transaction updated the row
  orderTopic,       \* log of topic order-created (offsets 1..Len)
  committedOffset,  \* offset committed by group inventory-service-consumers
  owner,            \* replica the partition of order-created is assigned to
  pos,              \* last offset fetched by the reader of the partition's owner
  pc,               \* replica -> control point of its order loop
  msgIdx,           \* replica -> offset of the message its loop iteration holds (0: none)
  succeededTopic,   \* topic order-succeeded: bag of the events published
  failedTopic,      \* topic order-failed: bag of the events published
  albumTopic,       \* log of topic album-created
  albumCommitted,   \* offset committed by group inventory-service-album-init
  albumPos,         \* last offset the album reader fetched
  albumPc,          \* control point of the album loop
  albumErr,         \* what the last run of processAlbumCreatedEvent returned
  faults,           \* crashes and rebalances so far
  delivered,        \* messages handed out when each is delivered exactly once
  outcomes,         \* history: order id -> runs that committed the decrement / updated no row
  processed,        \* history: offsets processOrderCreated has been called on
  pendingRetry,     \* history: offsets whose last processing returned an error
  overridden,       \* history: albums written by the administrative path
  lastExchange,     \* the last HTTP request a service answered, with its response
  processedOrders,  \* table processed_orders: order ids recorded
  orderStatus,      \* order-service: order id -> status of the saved order
  succeededHandled, \* order-succeeded events handleOrderSucceeded has consumed
  failedHandled,    \* order-failed events handleOrderFailed has consumed
  reservePc,        \* caller -> control point of its reserveInventory call
  reserveArgs,      \* caller -> (albumID, quantity) of its reserveInventory call
  reserveResult,    \* caller -> what its last reserveInventory call returned
  reserveCalls,     \* calls of reserveInventory made so far
  startStock        \* history: album -> quantity its row was created with

vars == <<inventory, rowLock, orderTopic, committedOffset, owner, pos, pc,
          msgIdx, succeededTopic, failedTopic, albumTopic, albumCommitted,
          albumPos, albumPc, albumErr, faults, delivered,
          outcomes, processed, pendingRetry, overridden, lastExchange,
          startStock,
          processedOrders, orderStatus, succeededHandled, failedHandled,
          reservePc, reserveArgs, reserveResult, reserveCalls>>

\* the reader and group state of the order loop
readerVars == <<committedOffset, owner, pos, delivered>>

\* the two outcome topics and the history of the order loop
outcomeVars == <<succeededTopic, failedTopic, outcomes>>

orderVars == <<orderTopic, readerVars, pc, msgIdx, outcomeVars, processed,
               pendingRetry, faults>>

albumVars == <<albumTopic, albumCommitted, albumPos, albumPc, albumErr>>

\* the state of the HTTP handlers
adminVars == <<overridden, lastExchange>>

\* the order records and outcome listeners of order-service
statusVars == <<orderStatus, succeededHandled, failedHandled>>

\* the calls of reserveInventory in progress
reserveVars == <<reservePc, reserveArgs, reserveResult, reserveCalls>>

\* ---------------------------------------------------------------- requests

\* values of the Client-Type header: "" is the header left out or empty
ClientTypes == {"admin", "user", ""}

\* the albumId of a request body that has none
NoAlbum == ""

\* the status class Order gives an order that is saved for the first time
initialOrderStatus == "PENDING"

\* no request has been answered yet
NoExchange == [route |-> "none"]

\* a request on a route and the status and body it is answered with;
\* quantity is the quantity of the request body, quantityAvailable the one
\* of the response body
Exchange(route, clientType, albumId, quantity, status, quantityAvailable) ==
  [route |-> route, clientType |-> clientType, albumId |-> albumId,
   quantity |-> quantity, status |-> status,
   quantityAvailable |-> quantityAvailable]

putInventoryRoute == "PUT /api/inventory/:albumId"
getAllInventoryRoute == "GET /api/inventory"
getInventoryRoute == "GET /api/inventory/:albumId"
createOrderRoute == "POST /api/orders"

\* ---------------------------------------------------------------- events

\* the header map of a message that carries no headers
NoHeaders == << >>

\* the trace-context header map an order-created message arrives with: an
\* opaque map, one per order
TraceContext(orderId) == [traceparent |-> orderId]

\* the kafka.Message of an order-created event: its headers, and its value
\* as OrderMessage decoded by json.Unmarshal; an undecodable payload has
\* decodable = FALSE and its other fields are never read.
OrderMessage(orderId, albumId, quantity) ==
  [decodable |-> TRUE, orderId |-> orderId, albumId |-> albumId,
   quantity |-> quantity, headers |-> TraceContext(orderId)]

UndecodableOrder ==
  [decodable |-> FALSE, orderId |-> 0, albumId |-> "A", quantity |-> 0,
   headers |-> NoHeaders]

\* AlbumCreatedEvent; InitialQuantity is a *int: hasInitialQuantity = FALSE
\* is the nil pointer.
AlbumCreatedEvent(albumId, hasInitialQuantity, initialQuantity) ==
  [decodable |-> TRUE, albumId |-> albumId,
   hasInitialQuantity |-> hasInitialQuantity,
   initialQuantity |-> initialQuantity]

UndecodableAlbum ==
  [decodable |-> FALSE, albumId |-> "A", hasInitialQuantity |-> FALSE,
   initialQuantity |-> 0]

OrderIds == 1..MaxOrderMsgs

\* the catalog item whose album-created events reach the ledger; "B" is an
\* album id the catalog never announces
CatalogAlbums == {"A"}

\* (albumId, quantity) pairs of the orders placed; every order for "B" takes
\* the same path whatever its quantity while "B" has no row
OrderInputs == {<<"A", q>> : q \in Quantities} \cup {<<"B", 1>>}

\* InitialQuantity pointers of the album-created events published: nil,
\* or a value
InitialQuantityInputs ==
  {<<FALSE, 0>>} \cup {<<TRUE, q>> : q \in Quantities}

\* order ids are the auto-increment keys of the orders table
NextOrderId ==
  Cardinality({i \in 1..Len(orderTopic) : orderTopic[i].decodable}) + 1

\* sendOrderEvent with the reason dropped from the order-failed event
sendOrderEvent_NoReason(orderID, reason, topic) ==
  [orderId |-> orderID, reason |-> "", headers |-> NoHeaders,
   decodable |-> TRUE]

\* sendOrderEvent writing the reason of the OrderFailedEvent comment instead
\* of the one it is passed
sendOrderEvent_StockReason(orderID, reason, topic) ==
  IF topic = orderFailedTopic
    THEN [orderId |-> orderID, reason |-> "INSUFFICIENT_STOCK",
          headers |-> NoHeaders, decodable |-> TRUE]
    ELSE [orderId |-> orderID, reason |-> "", headers |-> NoHeaders,
          decodable |-> TRUE]

\* the kafka.Message sendOrderEvent writes to a topic: the event it marshals
\* as Value (JSON the listeners of order-service decode), the order id as
\* Key, and no Headers
sendOrderEvent(orderID, reason, topic) ==
  IF topic = orderFailedTopic
    THEN [orderId |-> orderID, reason |-> reason, headers |-> NoHeaders,
          decodable |-> TRUE]
    ELSE [orderId |-> orderID, reason |-> "", headers |-> NoHeaders,
          decodable |-> TRUE]

\* order id strings: a natural number stands for its decimal string,
\* NotANumber for a string Long.parseLong rejects
NotANumber == 0 - 1

\* the id of no saved order: the ids the order store generates start at 1
UnknownOrderId == 0

\* a payload objectMapper.readValue rejects, on an outcome topic
UndecodableOutcome ==
  [orderId |-> UnknownOrderId, reason |-> "", headers |-> NoHeaders,
   decodable |-> FALSE]

\* a decodable outcome payload another producer wrote for an order id string
ForeignOutcome(orderIdStr) ==
  [orderId |-> orderIdStr, reason |-> "", headers |-> NoHeaders,
   decodable |-> TRUE]

\* the outcome messages that name no order of the order store
StrayOutcomes ==
  {UndecodableOutcome, ForeignOutcome(NotANumber),
   ForeignOutcome(UnknownOrderId)}

\* ---------------------------------------------------------------- init
InitRest ==
  /\ rowLock = [a \in Albums |-> NoReplica]
  /\ orderTopic = << >>
  /\ committedOffset = 0
  /\ owner = 1
  /\ pos = 0
  /\ pc = [r \in Replicas |-> "read"]
  /\ msgIdx = [r \in Replicas |-> 0]
  /\ succeededTopic = EmptyBag
  /\ failedTopic = EmptyBag
  /\ albumTopic = << >>
  /\ albumCommitted = 0
  /\ albumPos = 0
  /\ albumPc = "read"
  /\ albumErr = "none"
  /\ faults = 0
  /\ delivered = 0
  /\ outcomes = [o \in OrderIds |-> [succeeded |-> 0, failed |-> 0]]
  /\ processed = {}
  /\ pendingRetry = {}
  /\ overridden = {}
  /\ lastExchange = NoExchange
  /\ processedOrders = {}
  /\ orderStatus = [o \in OrderIds |-> initialOrderStatus]
  /\ succeededHandled = EmptyBag
  /\ failedHandled = EmptyBag
  /\ reservePc = [c \in Callers |-> "idle"]
  /\ reserveArgs = [c \in Callers |-> <<"A", 0>>]
  /\ reserveResult = [c \in Callers |-> "none"]
  /\ reserveCalls = 0

\* the service right after start-up: initDB has created an empty table
Init ==
  /\ inventory = << >>
  /\ startStock = << >>
  /\ InitRest

\* the service once the catalog item has been bootstrapped with some stock
InitStocked ==
  /\ \E s \in Stocks : inventory = [a \in CatalogAlbums |-> s]
  /\ startStock = inventory
  /\ InitRest

\* ---------------------------------------------------------------- producers

\* order-service publishes an order-created event for a saved order
sendOrderCreatedEvent(albumId, quantity) ==
  /\ Len(orderTopic) < MaxOrderMsgs
  /\ Len(orderTopic) + Len(albumTopic) < MaxMsgs
  /\ orderTopic' = Append(orderTopic, OrderMessage(NextOrderId, albumId, quantity))
  /\ UNCHANGED <<inventory, rowLock, readerVars, pc, msgIdx, outcomeVars,
                 processed, pendingRetry, faults, albumVars, adminVars,
                 processedOrders, statusVars, reserveVars,
                 startStock>>

\* a payload json.Unmarshal rejects arrives on order-created
PublishUndecodableOrder ==
  /\ Len(orderTopic) < MaxOrderMsgs
  /\ Len(orderTopic) + Len(albumTopic) < MaxMsgs
  /\ orderTopic' = Append(orderTopic, UndecodableOrder)
  /\ UNCHANGED <<inventory, rowLock, readerVars, pc, msgIdx, outcomeVars,
                 processed, pendingRetry, faults, albumVars, adminVars,
                 processedOrders, statusVars, reserveVars,
                 startStock>>

\* album-service publishes an album-created event
PublishAlbumCreated(albumId, hasInitialQuantity, initialQuantity) ==
  /\ Len(albumTopic) < MaxAlbumMsgs
  /\ Len(orderTopic) + Len(albumTopic) < MaxMsgs
  /\ albumTopic' = Append(albumTopic,
        AlbumCreatedEvent(albumId, hasInitialQuantity, initialQuantity))
  /\ UNCHANGED <<inventory, rowLock, orderVars, albumCommitted, albumPos,
                 albumPc, albumErr, adminVars, processedOrders, statusVars,
                 reserveVars, startStock>>

\* a payload json.Unmarshal rejects arrives on album-created
PublishUndecodableAlbum ==
  /\ Len(albumTopic) < MaxAlbumMsgs
  /\ Len(orderTopic) + Len(albumTopic) < MaxMsgs
  /\ albumTopic' = Append(albumTopic, UndecodableAlbum)
  /\ UNCHANGED <<inventory, rowLock, orderVars, albumCommitted, albumPos,
                 albumPc, albumErr, adminVars, processedOrders, statusVars,
                 reserveVars, startStock>>

\* ---------------------------------------------------------------- order loop

\* what a return of processOrderCreated does to the loop: nil goes on to
\* CommitMessages, an error is logged and the loop reads the next message
ReturnNil(r) ==
  /\ pc' = [pc EXCEPT ![r] = "commit"]
  /\ msgIdx' = msgIdx
  /\ pendingRetry' = pendingRetry \ {msgIdx[r]}

ReturnErr(r) ==
  /\ pc' = [pc EXCEPT ![r] = "read"]
  /\ msgIdx' = [msgIdx EXCEPT ![r] = 0]
  /\ pendingRetry' = pendingRetry \cup {msgIdx[r]}

\* the parse failure returned as an error, as processAlbumCreatedEvent does
ParseFailureReturn_Err(r, idx) ==
  /\ pc' = [pc EXCEPT ![r] = "read"]
  /\ msgIdx' = [msgIdx EXCEPT ![r] = 0]
  /\ pendingRetry' = pendingRetry \cup {idx}

\* the return on a payload json.Unmarshal rejects: nil, "still commit the
\* offset"
ParseFailureReturn(r, idx) ==
  /\ pc' = [pc EXCEPT ![r] = "commit"]
  /\ msgIdx' = [msgIdx EXCEPT ![r] = idx]
  /\ pendingRetry' = pendingRetry \ {idx}

\* processOrderCreated(db, msg) up to db.BeginTx, for the message at offset
\* idx: json.Unmarshal, then BeginTx or the error it returns
BeginTx(r, idx) ==
  /\ processed' = processed \cup {idx}
  /\ \/ /\ ~orderTopic[idx].decodable
        /\ ParseFailureReturn(r, idx)
     \/ /\ orderTopic[idx].decodable
        /\ pc' = [pc EXCEPT ![r] = "update"]
        /\ msgIdx' = [msgIdx EXCEPT ![r] = idx]
        /\ pendingRetry' = pendingRetry \ {idx}
     \/ /\ orderTopic[idx].decodable
        /\ pc' = [pc EXCEPT ![r] = "read"]
        /\ msgIdx' = [msgIdx EXCEPT ![r] = 0]
        /\ pendingRetry' = pendingRetry \cup {idx}

\* reader.ReadMessage returns the next message of the partition, in offset
\* order, and the loop calls processOrderCreated on it
ReadMessage(r) ==
  /\ pc[r] = "read"
  /\ owner = r
  /\ pos < Len(orderTopic)
  /\ pos' = pos + 1
  /\ BeginTx(r, pos + 1)
  /\ UNCHANGED <<inventory, rowLock, orderTopic, committedOffset, owner,
                 delivered, outcomeVars, faults, albumVars, adminVars,
                 processedOrders, statusVars, reserveVars,
                 startStock>>

\* the UPDATE without its stock condition: WHERE album_id = $2
RowMatches_NoStockCheck(albumId, quantity) ==
  albumId \in DOMAIN inventory

\* WHERE album_id = $2 AND quantity_available >= $1
RowMatches(albumId, quantity) ==
  /\ albumId \in DOMAIN inventory
  /\ inventory[albumId] >= quantity

\* a check of the stock that does not wait for the row: read, then write
RowFree_NoWait(albumId) == TRUE

\* the UPDATE waits while another open transaction has updated the row, and
\* evaluates its WHERE clause on the row that transaction leaves behind
RowFree(albumId) == rowLock[albumId] = NoReplica

\* an UPDATE that hands out what is left when the stock is short, and still
\* reports no row affected
ExecUpdate_PartialDeduction(r) ==
  LET event == orderTopic[msgIdx[r]] IN
  /\ pc[r] = "update"
  /\ \/ /\ RowMatches(event.albumId, event.quantity)
        /\ RowFree(event.albumId)
        /\ rowLock' = [rowLock EXCEPT ![event.albumId] = r]
        /\ pc' = [pc EXCEPT ![r] = "txcommit"]
        /\ UNCHANGED <<inventory, outcomes, pendingRetry, msgIdx>>
     \/ /\ ~RowMatches(event.albumId, event.quantity)
        /\ pc' = [pc EXCEPT ![r] = "sendFailed"]
        /\ outcomes' = [outcomes EXCEPT ![event.orderId].failed = @ + 1]
        /\ inventory' = [a \in DOMAIN inventory |->
                           IF a = event.albumId THEN 0 ELSE inventory[a]]
        /\ UNCHANGED <<rowLock, pendingRetry, msgIdx>>
     \/ /\ ReturnErr(r)
        /\ UNCHANGED <<inventory, rowLock, outcomes>>
  /\ UNCHANGED <<orderTopic, readerVars, succeededTopic, failedTopic,
                 processed, faults, albumVars, adminVars, processedOrders,
                 statusVars, reserveVars, startStock>>

\* the UPDATE as an upsert: an order for an album without a row creates the
\* row at quantity 0, and still reports no row affected
ExecUpdate_CreatesRow(r) ==
  LET event == orderTopic[msgIdx[r]] IN
  /\ pc[r] = "update"
  /\ \/ /\ RowMatches(event.albumId, event.quantity)
        /\ RowFree(event.albumId)
        /\ rowLock' = [rowLock EXCEPT ![event.albumId] = r]
        /\ pc' = [pc EXCEPT ![r] = "txcommit"]
        /\ UNCHANGED <<inventory, outcomes, pendingRetry, msgIdx>>
     \/ /\ ~RowMatches(event.albumId, event.quantity)
        /\ pc' = [pc EXCEPT ![r] = "sendFailed"]
        /\ outcomes' = [outcomes EXCEPT ![event.orderId].failed = @ + 1]
        /\ inventory' = [a \in DOMAIN inventory \cup {event.albumId} |->
                           IF a \in DOMAIN inventory THEN inventory[a] ELSE 0]
        /\ UNCHANGED <<rowLock, pendingRetry, msgIdx>>
     \/ /\ ReturnErr(r)
        /\ UNCHANGED <<inventory, rowLock, outcomes>>
  /\ UNCHANGED <<orderTopic, readerVars, succeededTopic, failedTopic,
                 processed, faults, albumVars, adminVars, processedOrders,
                 statusVars, reserveVars, startStock>>

\* the shortage branch returning nil without its order-failed event
ExecUpdate_SilentShortage(r) ==
  LET event == orderTopic[msgIdx[r]] IN
  /\ pc[r] = "update"
  /\ \/ /\ RowMatches(event.albumId, event.quantity)
        /\ RowFree(event.albumId)
        /\ rowLock' = [rowLock EXCEPT ![event.albumId] = r]
        /\ pc' = [pc EXCEPT ![r] = "txcommit"]
        /\ UNCHANGED <<outcomes, pendingRetry, msgIdx>>
     \/ /\ ~RowMatches(event.albumId, event.quantity)
        /\ ReturnNil(r)
        /\ UNCHANGED <<rowLock, outcomes>>
     \/ /\ ReturnErr(r)
        /\ UNCHANGED <<rowLock, outcomes>>
  /\ UNCHANGED <<inventory, orderTopic, readerVars, succeededTopic,
                 failedTopic, processed, faults, albumVars, adminVars,
                 processedOrders, statusVars, reserveVars,
                 startStock>>

\* tx.ExecContext(UPDATE inventory ...) and result.RowsAffected
ExecUpdate(r) ==
  LET event == orderTopic[msgIdx[r]] IN
  /\ pc[r] = "update"
  /\ \/ /\ RowMatches(event.albumId, event.quantity)
        /\ RowFree(event.albumId)
        /\ rowLock' = [rowLock EXCEPT ![event.albumId] = r]
        /\ pc' = [pc EXCEPT ![r] = "txcommit"]
        /\ UNCHANGED <<outcomes, pendingRetry, msgIdx>>
     \/ /\ ~RowMatches(event.albumId, event.quantity)
        /\ pc' = [pc EXCEPT ![r] = "sendFailed"]
        /\ outcomes' = [outcomes EXCEPT ![event.orderId].failed = @ + 1]
        /\ UNCHANGED <<rowLock, pendingRetry, msgIdx>>
     \/ /\ ReturnErr(r)
        /\ UNCHANGED <<rowLock, outcomes>>
  /\ UNCHANGED <<inventory, orderTopic, readerVars, succeededTopic,
                 failedTopic, processed, faults, albumVars, adminVars,
                 processedOrders, statusVars, reserveVars,
                 startStock>>

\* the UPDATE deducting one unit whatever the requested quantity
Deducted_Unit(albumId, quantity) == inventory[albumId] - 1

\* the value the UPDATE writes: quantity_available - $1
Deducted(albumId, quantity) == inventory[albumId] - quantity

\* tx.Commit with its error ignored: the run goes on to publish
CommitTx_IgnoreError(r) ==
  LET event == orderTopic[msgIdx[r]] IN
  /\ pc[r] = "txcommit"
  /\ rowLock' = [rowLock EXCEPT ![event.albumId] = NoReplica]
  /\ \/ /\ inventory' = [inventory EXCEPT
                  ![event.albumId] = Deducted(event.albumId, event.quantity)]
        /\ outcomes' = [outcomes EXCEPT ![event.orderId].succeeded = @ + 1]
     \/ UNCHANGED <<inventory, outcomes>>
  /\ pc' = [pc EXCEPT ![r] = "sendSucceeded"]
  /\ UNCHANGED <<orderTopic, readerVars, succeededTopic, failedTopic,
                 pendingRetry, msgIdx, processed, faults, albumVars,
                 adminVars, processedOrders, statusVars, reserveVars,
                 startStock>>

\* tx.Commit reporting an error for a decrement that stays applied
CommitTx_DeductOnError(r) ==
  LET event == orderTopic[msgIdx[r]] IN
  /\ pc[r] = "txcommit"
  /\ rowLock' = [rowLock EXCEPT ![event.albumId] = NoReplica]
  /\ inventory' = [inventory EXCEPT
            ![event.albumId] = Deducted(event.albumId, event.quantity)]
  /\ \/ /\ outcomes' = [outcomes EXCEPT ![event.orderId].succeeded = @ + 1]
        /\ pc' = [pc EXCEPT ![r] = "sendSucceeded"]
        /\ UNCHANGED <<pendingRetry, msgIdx>>
     \/ /\ ReturnErr(r)
        /\ UNCHANGED outcomes
  /\ UNCHANGED <<orderTopic, readerVars, succeededTopic, failedTopic,
                 processed, faults, albumVars, adminVars,
                 processedOrders, statusVars, reserveVars, startStock>>

\* rowsAffected == 1: tx.Commit
CommitTx(r) ==
  LET event == orderTopic[msgIdx[r]] IN
  /\ pc[r] = "txcommit"
  /\ rowLock' = [rowLock EXCEPT ![event.albumId] = NoReplica]
  /\ \/ /\ inventory' = [inventory EXCEPT
                  ![event.albumId] = Deducted(event.albumId, event.quantity)]
        /\ outcomes' = [outcomes EXCEPT ![event.orderId].succeeded = @ + 1]
        /\ pc' = [pc EXCEPT ![r] = "sendSucceeded"]
        /\ UNCHANGED <<pendingRetry, msgIdx>>
     \/ /\ ReturnErr(r)
        /\ UNCHANGED <<inventory, outcomes>>
  /\ UNCHANGED <<orderTopic, readerVars, succeededTopic, failedTopic,
                 processed, faults, albumVars, adminVars,
                 processedOrders, statusVars, reserveVars, startStock>>

\* sendOrderSucceededEvent with its write error returned to the loop
SendSucceeded_ReturnErr(r) ==
  LET event == orderTopic[msgIdx[r]] IN
  /\ pc[r] = "sendSucceeded"
  /\ \/ /\ succeededTopic' = succeededTopic (+)
              SetToBag({sendOrderEvent(event.orderId, "", orderSucceededTopic)})
        /\ ReturnNil(r)
     \/ /\ UNCHANGED succeededTopic
        /\ ReturnErr(r)
  /\ UNCHANGED <<inventory, rowLock, orderTopic, readerVars,
                 failedTopic, outcomes, processed, faults, albumVars,
                 adminVars, processedOrders, statusVars, reserveVars,
                 startStock>>

\* sendOrderSucceededEvent without the return that follows it: the run falls
\* through to the shortage branch
SendSucceeded_FallThrough(r) ==
  LET event == orderTopic[msgIdx[r]] IN
  /\ pc[r] = "sendSucceeded"
  /\ \/ succeededTopic' = succeededTopic (+)
            SetToBag({sendOrderEvent(event.orderId, "", orderSucceededTopic)})
     \/ UNCHANGED succeededTopic
  /\ pc' = [pc EXCEPT ![r] = "sendFailed"]
  /\ UNCHANGED <<inventory, rowLock, orderTopic, readerVars, msgIdx,
                 pendingRetry, failedTopic, outcomes, processed, faults,
                 albumVars, adminVars, processedOrders, statusVars,
                 reserveVars, startStock>>

\* sendOrderSucceededEvent; a write error is only logged
SendSucceeded(r) ==
  LET event == orderTopic[msgIdx[r]] IN
  /\ pc[r] = "sendSucceeded"
  /\ \/ succeededTopic' = succeededTopic (+)
            SetToBag({sendOrderEvent(event.orderId, "", orderSucceededTopic)})
     \/ UNCHANGED succeededTopic
  /\ ReturnNil(r)
  /\ UNCHANGED <<inventory, rowLock, orderTopic, readerVars,
                 failedTopic, outcomes, processed, faults, albumVars,
                 adminVars, processedOrders, statusVars, reserveVars, startStock>>

\* rowsAffected == 0: sendOrderFailedEvent; a write error is only logged
SendFailed(r) ==
  LET event == orderTopic[msgIdx[r]] IN
  /\ pc[r] = "sendFailed"
  /\ \/ failedTopic' = failedTopic (+)
            SetToBag({sendOrderEvent(event.orderId, "INSUFFICIENT_INVENTORY",
                                     orderFailedTopic)})
     \/ UNCHANGED failedTopic
  /\ ReturnNil(r)
  /\ UNCHANGED <<inventory, rowLock, orderTopic, readerVars,
                 succeededTopic, outcomes, processed, faults, albumVars,
                 adminVars, processedOrders, statusVars, reserveVars, startStock>>

\* reader.CommitMessages(msg); a commit error is only logged
CommitMessages(r) ==
  /\ pc[r] = "commit"
  /\ \/ committedOffset' = msgIdx[r]
     \/ UNCHANGED committedOffset
  /\ pc' = [pc EXCEPT ![r] = "read"]
  /\ msgIdx' = [msgIdx EXCEPT ![r] = 0]
  /\ UNCHANGED <<inventory, rowLock, orderTopic, owner, pos, delivered,
                 outcomeVars, processed, pendingRetry, faults,
                 albumVars, adminVars, processedOrders, statusVars, reserveVars, startStock>>

\* rows a replica's open transaction holds are released when it ends
ReleaseLocks(r) == [a \in Albums |-> IF rowLock[a] = r THEN NoReplica ELSE rowLock[a]]

\* the replica dies anywhere in its loop and is restarted: its open
\* transaction is rolled back and its new reader starts at the committed offset
Crash(r) ==
  /\ faults < MaxFaults
  /\ faults' = faults + 1
  /\ rowLock' = ReleaseLocks(r)
  /\ pc' = [pc EXCEPT ![r] = "read"]
  /\ msgIdx' = [msgIdx EXCEPT ![r] = 0]
  /\ pos' = IF owner = r THEN committedOffset ELSE pos
  /\ UNCHANGED <<inventory, orderTopic, committedOffset, owner, delivered,
                 outcomeVars, processed, pendingRetry, albumVars, adminVars,
                 processedOrders, statusVars, reserveVars,
                 startStock>>

\* the group coordinator moves the partition to another replica, whose
\* reader starts at the committed offset; the previous owner finishes the
\* message it has in hand
Rebalance(r) ==
  /\ faults < MaxFaults
  /\ owner # r
  /\ faults' = faults + 1
  /\ owner' = r
  /\ pos' = committedOffset
  /\ UNCHANGED <<inventory, rowLock, orderTopic, committedOffset, delivered,
                 pc, msgIdx, outcomeVars, processed, pendingRetry, albumVars,
                 adminVars, processedOrders, statusVars, reserveVars, startStock>>

\* ---------------------------------------------------------------- album loop

\* quantityToInsert without the check for a negative initial quantity
quantityToInsert_NoSignCheck(event) ==
  IF event.hasInitialQuantity
    THEN event.initialQuantity
    ELSE 0

\* quantityToInsert of processAlbumCreatedEvent
quantityToInsert(event) ==
  IF event.hasInitialQuantity /\ event.initialQuantity >= 0
    THEN event.initialQuantity
    ELSE 0

\* the insert as an upsert: ON CONFLICT (album_id) DO UPDATE
InsertOrUpdate(table, albumId, quantity) ==
  [a \in DOMAIN table \cup {albumId} |->
     IF a = albumId THEN quantity ELSE table[a]]

\* INSERT INTO inventory ... ON CONFLICT (album_id) DO NOTHING
InsertIfAbsent(table, albumId, quantity) ==
  IF albumId \in DOMAIN table
    THEN table
    ELSE [a \in DOMAIN table \cup {albumId} |->
            IF a = albumId THEN quantity ELSE table[a]]

\* the errors processAlbumCreatedEvent returns, by the text fmt.Errorf puts in
\* front of the wrapped error
errParseAlbumCreatedEvent == "failed to parse AlbumCreatedEvent"
errDatabaseExecution == "database execution failed"

\* the parse failure of processAlbumCreatedEvent returned as nil, as
\* processOrderCreated does
AlbumParseFailureReturn_Nil ==
  /\ albumPc' = "commit"
  /\ albumErr' = "nil"

\* the return of processAlbumCreatedEvent on a payload json.Unmarshal
\* rejects: the error, which the loop logs without committing the offset
AlbumParseFailureReturn ==
  /\ albumPc' = "read"
  /\ albumErr' = errParseAlbumCreatedEvent

\* the return of processAlbumCreatedEvent when db.ExecContext fails
AlbumExecFailureReturn ==
  /\ albumPc' = "read"
  /\ albumErr' = errDatabaseExecution

\* reader.ReadMessage of startAlbumCreatedConsumer and processAlbumCreatedEvent
\* on the message: a parse error and a storage error are returned (the loop
\* logs them and reads on without committing), a nil return is committed
processAlbumCreatedEvent ==
  LET event == albumTopic[albumPos + 1] IN
  /\ albumPc = "read"
  /\ albumPos < Len(albumTopic)
  /\ albumPos' = albumPos + 1
  /\ \/ /\ ~event.decodable
        /\ AlbumParseFailureReturn
        /\ UNCHANGED <<inventory, startStock>>
     \/ /\ event.decodable
        /\ AlbumExecFailureReturn
        /\ UNCHANGED <<inventory, startStock>>
     \/ /\ event.decodable
        /\ inventory' = InsertIfAbsent(inventory, event.albumId, quantityToInsert(event))
        /\ startStock' = IF event.albumId \in DOMAIN inventory
                           THEN startStock
                           ELSE [a \in DOMAIN startStock \cup {event.albumId} |->
                                   inventory'[a]]
        /\ albumPc' = "commit"
        /\ albumErr' = "nil"
  /\ UNCHANGED <<rowLock, orderVars, albumTopic, albumCommitted, adminVars,
                 processedOrders, statusVars, reserveVars>>

\* reader.CommitMessages of startAlbumCreatedConsumer
AlbumCommitMessages ==
  /\ albumPc = "commit"
  /\ \/ albumCommitted' = albumPos
     \/ UNCHANGED albumCommitted
  /\ albumPc' = "read"
  /\ UNCHANGED <<inventory, rowLock, orderVars, albumTopic, albumPos, albumErr,
                 adminVars, processedOrders, statusVars, reserveVars, startStock>>

\* the process of the album loop is restarted: the new reader of group
\* inventory-service-album-init starts behind the committed offset
AlbumRestart ==
  /\ faults < MaxFaults
  /\ faults' = faults + 1
  /\ albumPos' = albumCommitted
  /\ albumPc' = "read"
  /\ albumErr' = "none"
  /\ UNCHANGED <<inventory, rowLock, orderTopic, readerVars, pc, msgIdx,
                 outcomeVars, processed, pendingRetry, albumTopic,
                 albumCommitted, adminVars, processedOrders, statusVars,
                 reserveVars, startStock>>

\* ---------------------------------------------------------------- admin

\* requireAdmin letting every request through
requireAdmin_AllowAll(clientType) == TRUE

\* requireAdmin: the Client-Type header is "admin"
requireAdmin(clientType) == clientType = "admin"

\* what a request leaves alone when its handler only reads
readOnlyVars == <<inventory, rowLock, orderVars, albumVars, overridden,
                  startStock, processedOrders, statusVars, reserveVars>>

\* updateInventory: INSERT ... ON CONFLICT (album_id) DO UPDATE SET
\* quantity_available = $2.  binding:"required" rejects a zero quantity.
\* The answer of the handler is recorded by PutInventory.
updateInventory(albumId, quantityAvailable) ==
  /\ quantityAvailable # 0
  /\ RowFree(albumId)
  /\ inventory' = [a \in DOMAIN inventory \cup {albumId} |->
                     IF a = albumId THEN quantityAvailable ELSE inventory[a]]
  /\ overridden' = overridden \cup {albumId}
  /\ UNCHANGED <<rowLock, orderVars, albumVars, startStock, processedOrders,
                 statusVars, reserveVars>>

\* PUT /api/inventory/:albumId: requireAdmin answers 403 to a client that
\* is not an admin; ShouldBindJSON answers 400 to a zero quantity;
\* updateInventory answers 200 with the quantity of the request once the
\* upsert is done, or 500 when db.Exec fails
PutInventory(clientType, albumId, quantityAvailable) ==
  \/ /\ ~requireAdmin(clientType)
     /\ lastExchange' = Exchange(putInventoryRoute, clientType, albumId,
                                 quantityAvailable, 403, 0)
     /\ UNCHANGED readOnlyVars
  \/ /\ requireAdmin(clientType)
     /\ quantityAvailable = 0
     /\ lastExchange' = Exchange(putInventoryRoute, clientType, albumId,
                                 quantityAvailable, 400, 0)
     /\ UNCHANGED readOnlyVars
  \/ /\ requireAdmin(clientType)
     /\ updateInventory(albumId, quantityAvailable)
     /\ lastExchange' = Exchange(putInventoryRoute, clientType, albumId,
                                 quantityAvailable, 200, quantityAvailable)
  \/ /\ requireAdmin(clientType)
     /\ quantityAvailable # 0
     /\ lastExchange' = Exchange(putInventoryRoute, clientType, albumId,
                                 quantityAvailable, 500, 0)
     /\ UNCHANGED readOnlyVars

\* GET /api/inventory: requireAdmin, then getAllInventory, which answers the
\* rows of the table, or 500
GetAllInventory(clientType) ==
  /\ \/ /\ ~requireAdmin(clientType)
        /\ lastExchange' = [route |-> getAllInventoryRoute,
                            clientType |-> clientType, status |-> 403]
     \/ /\ requireAdmin(clientType)
        /\ lastExchange' = [route |-> getAllInventoryRoute,
                            clientType |-> clientType, status |-> 200,
                            inventoryList |-> inventory]
     \/ /\ requireAdmin(clientType)
        /\ lastExchange' = [route |-> getAllInventoryRoute,
                            clientType |-> clientType, status |-> 500]
  /\ UNCHANGED readOnlyVars

\* getInventory answering an album without a row by creating the row
getInventory_CreatesRow(clientType, albumId) ==
  /\ \/ /\ albumId \in DOMAIN inventory
        /\ lastExchange' = Exchange(getInventoryRoute, clientType, albumId, 0,
                                    200, inventory[albumId])
        /\ UNCHANGED inventory
     \/ /\ albumId \notin DOMAIN inventory
        /\ lastExchange' = Exchange(getInventoryRoute, clientType, albumId, 0,
                                    200, 0)
        /\ inventory' = [a \in DOMAIN inventory \cup {albumId} |->
                           IF a = albumId THEN 0 ELSE inventory[a]]
     \/ /\ lastExchange' = Exchange(getInventoryRoute, clientType, albumId, 0,
                                    500, 0)
        /\ UNCHANGED inventory
  /\ UNCHANGED <<rowLock, orderVars, albumVars, overridden, startStock,
                 processedOrders, statusVars, reserveVars>>

\* GET /api/inventory/:albumId, open to every client: getInventory answers
\* the row, a zero quantity on sql.ErrNoRows, or 500 on another error
getInventory(clientType, albumId) ==
  /\ \/ /\ albumId \in DOMAIN inventory
        /\ lastExchange' = Exchange(getInventoryRoute, clientType, albumId, 0,
                                    200, inventory[albumId])
        /\ UNCHANGED inventory
     \/ /\ albumId \notin DOMAIN inventory
        /\ lastExchange' = Exchange(getInventoryRoute, clientType, albumId, 0,
                                    200, 0)
        /\ UNCHANGED inventory
     \/ /\ lastExchange' = Exchange(getInventoryRoute, clientType, albumId, 0,
                                    500, 0)
        /\ UNCHANGED inventory
  /\ UNCHANGED <<rowLock, orderVars, albumVars, overridden, startStock,
                 processedOrders, statusVars, reserveVars>>

\* ---------------------------------------------------------------- reserve

\* reserveInventory up to its UPDATE: the SELECT of the current quantity and
\* the comparison with the requested one; the SELECT reads the committed row
\* and takes no lock
ReserveSelect(c, albumID, quantity) ==
  /\ reservePc[c] = "idle"
  /\ reserveCalls < MaxReserveCalls
  /\ reserveCalls' = reserveCalls + 1
  /\ reserveArgs' = [reserveArgs EXCEPT ![c] = <<albumID, quantity>>]
  /\ \/ /\ albumID \notin DOMAIN inventory
        /\ reserveResult' = [reserveResult EXCEPT ![c] = "errNoInventory"]
        /\ UNCHANGED reservePc
     \/ /\ albumID \in DOMAIN inventory
        /\ inventory[albumID] < quantity
        /\ reserveResult' = [reserveResult EXCEPT ![c] = "errInsufficientInventory"]
        /\ UNCHANGED reservePc
     \/ /\ albumID \in DOMAIN inventory
        /\ inventory[albumID] >= quantity
        /\ reserveResult' = [reserveResult EXCEPT ![c] = "none"]
        /\ reservePc' = [reservePc EXCEPT ![c] = "update"]
     \/ /\ reserveResult' = [reserveResult EXCEPT ![c] = "err"]
        /\ UNCHANGED reservePc
  /\ UNCHANGED <<inventory, rowLock, orderVars, albumVars, adminVars,
                 processedOrders, statusVars, startStock>>

\* reserveInventory from its UPDATE on: quantity_available - $1 WHERE
\* album_id = $3, in its own transaction, then the SELECT for the log
ReserveUpdate(c) ==
  LET albumID == reserveArgs[c][1]
      quantity == reserveArgs[c][2] IN
  /\ reservePc[c] = "update"
  /\ reservePc' = [reservePc EXCEPT ![c] = "idle"]
  /\ \/ /\ RowFree(albumID)
        /\ inventory' = [inventory EXCEPT ![albumID] = @ - quantity]
        /\ \E res \in {"nil", "err"} :
             reserveResult' = [reserveResult EXCEPT ![c] = res]
     \/ /\ reserveResult' = [reserveResult EXCEPT ![c] = "err"]
        /\ UNCHANGED inventory
  /\ UNCHANGED <<rowLock, orderVars, albumVars, adminVars, processedOrders,
                 statusVars, startStock, reserveArgs, reserveCalls>>

\* ---------------------------------------------------------------- order-service

\* createOrder without the check of the Client-Type header
createOrder_AnyClient(clientType, albumId, quantity) ==
  /\ Len(orderTopic) < MaxOrderMsgs
  /\ orderTopic' = Append(orderTopic,
                          OrderMessage(NextOrderId, albumId, quantity))
  /\ lastExchange' = Exchange(createOrderRoute, clientType, albumId,
                              quantity, 201, 0)
  /\ UNCHANGED <<inventory, rowLock, readerVars, pc, msgIdx, outcomeVars,
                 processed, pendingRetry, faults, albumVars, overridden,
                 processedOrders, statusVars, reserveVars, startStock>>

\* createOrder recording the order as fulfilled when it is saved
createOrder_Optimistic(clientType, albumId, quantity) ==
  /\ \/ /\ clientType # "user"
        /\ lastExchange' = Exchange(createOrderRoute, clientType, albumId,
                                    quantity, 403, 0)
        /\ UNCHANGED <<orderTopic, orderStatus>>
     \/ /\ clientType = "user"
        /\ Len(orderTopic) < MaxOrderMsgs
        /\ orderTopic' = Append(orderTopic,
                                OrderMessage(NextOrderId, albumId, quantity))
        /\ orderStatus' = [orderStatus EXCEPT ![NextOrderId] = "SUCCEEDED"]
        /\ lastExchange' = Exchange(createOrderRoute, clientType, albumId,
                                    quantity, 201, 0)
  /\ UNCHANGED <<inventory, rowLock, readerVars, pc, msgIdx, outcomeVars,
                 processed, pendingRetry, faults, albumVars, overridden,
                 processedOrders, succeededHandled, failedHandled,
                 reserveVars, startStock>>

\* POST /api/orders: OrderController.createOrder answers 403 unless the
\* Client-Type header is "user"; OrderServiceImpl.createOrder saves the order
\* as it came and publishes its order-created event; the answer is 201
createOrder(clientType, albumId, quantity) ==
  /\ \/ /\ clientType # "user"
        /\ lastExchange' = Exchange(createOrderRoute, clientType, albumId,
                                    quantity, 403, 0)
        /\ UNCHANGED orderTopic
     \/ /\ clientType = "user"
        /\ Len(orderTopic) < MaxOrderMsgs
        /\ orderTopic' = Append(orderTopic,
                                OrderMessage(NextOrderId, albumId, quantity))
        /\ lastExchange' = Exchange(createOrderRoute, clientType, albumId,
                                    quantity, 201, 0)
  /\ UNCHANGED <<inventory, rowLock, readerVars, pc, msgIdx, outcomeVars,
                 processed, pendingRetry, faults, albumVars, overridden,
                 processedOrders, statusVars, reserveVars, startStock>>

\* updateOrderStatus creating the order record when findById finds none
updateOrderStatus_Upsert(orderIdStr, newStatus) ==
  IF orderIdStr = NotANumber
    THEN orderStatus
    ELSE [o \in DOMAIN orderStatus \cup {orderIdStr} |->
            IF o = orderIdStr THEN newStatus ELSE orderStatus[o]]

\* updateOrderStatus: Long.parseLong, whose NumberFormatException is logged;
\* findById, and when the order is present setStatus and save, whatever its
\* current status; when it is absent a warning is logged
updateOrderStatus(orderIdStr, newStatus) ==
  IF orderIdStr = NotANumber
    THEN orderStatus
    ELSE IF \E i \in 1..Len(orderTopic) :
              orderTopic[i].decodable /\ orderTopic[i].orderId = orderIdStr
           THEN [orderStatus EXCEPT ![orderIdStr] = newStatus]
           ELSE orderStatus

\* @KafkaListener(topics = "order-succeeded"): one message of the topic the
\* listener has not handled yet. The method returns normally on every path,
\* so the message is consumed: a JsonProcessingException and any other
\* exception (the order store failing in findById or save) are logged
handleOrderSucceeded ==
  \E e \in BagToSet(succeededTopic) :
    /\ CopiesIn(e, succeededHandled) < CopiesIn(e, succeededTopic)
    /\ succeededHandled' = succeededHandled (+) SetToBag({e})
    /\ \/ /\ ~e.decodable
          /\ UNCHANGED orderStatus
       \/ /\ e.decodable
          /\ orderStatus' = updateOrderStatus(e.orderId, "SUCCEEDED")
       \/ /\ e.decodable
          /\ e.orderId # NotANumber
          /\ UNCHANGED orderStatus
    /\ UNCHANGED <<inventory, rowLock, orderVars, albumVars, adminVars,
                   processedOrders, failedHandled, reserveVars, startStock>>

\* @KafkaListener(topics = "order-failed")
handleOrderFailed ==
  \E e \in BagToSet(failedTopic) :
    /\ CopiesIn(e, failedHandled) < CopiesIn(e, failedTopic)
    /\ failedHandled' = failedHandled (+) SetToBag({e})
    /\ \/ /\ ~e.decodable
          /\ UNCHANGED orderStatus
       \/ /\ e.decodable
          /\ orderStatus' = updateOrderStatus(e.orderId, "FAILED")
       \/ /\ e.decodable
          /\ e.orderId # NotANumber
          /\ UNCHANGED orderStatus
    /\ UNCHANGED <<inventory, rowLock, orderVars, albumVars, adminVars,
                   processedOrders, succeededHandled, reserveVars, startStock>>

\* another producer writes a message to an outcome topic
PublishStrayOutcome(topic, message) ==
  /\ BagCardinality(succeededTopic) + BagCardinality(failedTopic)
       < MaxOutcomeMsgs
  /\ \/ /\ topic = orderSucceededTopic
        /\ succeededTopic' = succeededTopic (+) SetToBag({message})
        /\ UNCHANGED failedTopic
     \/ /\ topic = orderFailedTopic
        /\ failedTopic' = failedTopic (+) SetToBag({message})
        /\ UNCHANGED succeededTopic
  /\ UNCHANGED <<inventory, rowLock, orderTopic, readerVars, pc, msgIdx,
                 outcomes, processed, pendingRetry, faults, albumVars,
                 adminVars, processedOrders, statusVars, reserveVars,
                 startStock>>

\* ---------------------------------------------------------------- delivery

\* every message of order-created is handed to exactly one replica, once;
\* the replicas process their messages concurrently
DeliverOnce(r) ==
  /\ pc[r] = "read"
  /\ delivered < Len(orderTopic)
  /\ delivered' = delivered + 1
  /\ BeginTx(r, delivered + 1)
  /\ UNCHANGED <<inventory, rowLock, orderTopic, committedOffset, owner, pos,
                 outcomeVars, faults, albumVars, adminVars,
                 processedOrders, statusVars, reserveVars, startStock>>

\* ---------------------------------------------------------------- next

PublishOrder ==
  \/ \E oi \in OrderInputs : sendOrderCreatedEvent(oi[1], oi[2])
  \/ PublishUndecodableOrder

PublishAlbum ==
  \/ \E a \in CatalogAlbums, iq \in InitialQuantityInputs :
        PublishAlbumCreated(a, iq[1], iq[2])
  \/ PublishUndecodableAlbum

\* processOrderCreated after BeginTx, one storage or broker call at a time
ProcessOrderCreated(r) ==
  \/ ExecUpdate(r)
  \/ CommitTx(r)
  \/ SendSucceeded(r)
  \/ SendFailed(r)

\* startOrderConsumer of one replica
OrderLoop(r) ==
  \/ ReadMessage(r)
  \/ ProcessOrderCreated(r)
  \/ CommitMessages(r)

\* startAlbumCreatedConsumer
AlbumLoop ==
  \/ processAlbumCreatedEvent
  \/ AlbumCommitMessages

\* the bootstrap listener, the administrative write path and the order loop
\* of one replica taking unit orders for the catalog item
Next ==
  \/ \E a \in CatalogAlbums : sendOrderCreatedEvent(a, 1)
  \/ PublishAlbum
  \/ OrderLoop(owner)
  \/ AlbumLoop
  \/ /\ \E a \in CatalogAlbums, q \in Quantities : updateInventory(a, q)
     /\ UNCHANGED lastExchange

Spec == Init /\ [][Next]_vars

\* the bootstrap listener alone, for every album id, restarted at any point
NextAlbum ==
  \/ \E a \in Albums, iq \in InitialQuantityInputs :
        PublishAlbumCreated(a, iq[1], iq[2])
  \/ PublishUndecodableAlbum
  \/ AlbumLoop
  \/ AlbumRestart

SpecAlbum == Init /\ [][NextAlbum]_vars

\* the bootstrap listener and the order loop of one replica side by side, as
\* main starts them: orders for an item arrive before, between and after its
\* album-created events
NextCross ==
  \/ /\ Len(orderTopic) < MaxRedeliveryMsgs
     /\ \E q \in Quantities : sendOrderCreatedEvent("A", q)
  \/ \E iq \in InitialQuantityInputs : PublishAlbumCreated("A", iq[1], iq[2])
  \/ OrderLoop(owner)
  \/ AlbumLoop

SpecCross == Init /\ [][NextCross]_vars

\* the HTTP routes of inventory-service next to the bootstrap listener
NextApi ==
  \/ \E ct \in ClientTypes, a \in CatalogAlbums, q \in Quantities :
        PutInventory(ct, a, q)
  \/ \E ct \in ClientTypes : GetAllInventory(ct)
  \/ \E ct \in ClientTypes, a \in CatalogAlbums : getInventory(ct, a)
  \/ \E iq \in InitialQuantityInputs : PublishAlbumCreated("A", iq[1], iq[2])
  \/ AlbumLoop

SpecApi == Init /\ [][NextApi]_vars

\* POST /api/orders of order-service, the order loop of one replica and the
\* outcome listeners of order-service
NextOrderApi ==
  \/ /\ \E ct \in ClientTypes, a \in {"A", NoAlbum}, q \in Quantities :
          createOrder(ct, a, q)
     /\ Len(orderTopic') <= MaxRedeliveryMsgs
  \/ OrderLoop(owner)
  \/ handleOrderSucceeded
  \/ handleOrderFailed

SpecOrderApi == InitStocked /\ [][NextOrderApi]_vars

\* the order loop of one replica without faults
NextLoop ==
  \/ PublishOrder
  \/ OrderLoop(owner)

SpecLoop == InitStocked /\ [][NextLoop]_vars

\* the loop never stops: every enabled step of it is eventually taken
FairLoop ==
  /\ SpecLoop
  /\ WF_vars(ReadMessage(owner))
  /\ WF_vars(ProcessOrderCreated(owner))
  /\ WF_vars(CommitMessages(owner))

\* the order loop of a replicated service under crashes and rebalances
NextRedelivery ==
  \/ /\ Len(orderTopic) < MaxRedeliveryMsgs
     /\ \E q \in Quantities : sendOrderCreatedEvent("A", q)
  \/ \E r \in Replicas : OrderLoop(r)
  \/ \E r \in Replicas : Crash(r)
  \/ \E r \in Replicas : Rebalance(r)

SpecRedelivery == InitStocked /\ [][NextRedelivery]_vars

\* replicas processing distinct order-created events for one item
\* concurrently
NextConc ==
  \/ \E q \in Quantities : sendOrderCreatedEvent("A", q)
  \/ \E r \in Replicas : DeliverOnce(r)
  \/ \E r \in Replicas : ProcessOrderCreated(r)
  \/ \E r \in Replicas : CommitMessages(r)

SpecConc == InitStocked /\ [][NextConc]_vars

\* callers of reserveInventory next to the order loop of one replica
NextReserve ==
  \/ \E c \in Callers, oi \in OrderInputs : ReserveSelect(c, oi[1], oi[2])
  \/ \E c \in Callers : ReserveUpdate(c)
  \/ /\ Len(orderTopic) < MaxRedeliveryMsgs
     /\ \E q \in Quantities : sendOrderCreatedEvent("A", q)
  \/ OrderLoop(owner)

SpecReserve == InitStocked /\ [][NextReserve]_vars

\* the replicated order loop under crashes and rebalances, with the outcome
\* listeners of order-service
NextStatus ==
  \/ NextRedelivery
  \/ handleOrderSucceeded
  \/ handleOrderFailed

SpecStatus == InitStocked /\ [][NextStatus]_vars

\* a step of replica r in which no call to the storage layer or the broker
\* returned an error: no run returned an error, each send wrote its event
\* and CommitMessages committed the offset
NoFailure(r) ==
  /\ pendingRetry' = { }
  /\ pc[r] = "sendSucceeded" => succeededTopic' # succeededTopic
  /\ pc[r] = "sendFailed" => failedTopic' # failedTopic
  /\ pc[r] = "commit" => committedOffset' = msgIdx[r]

\* the order loop of one replica while storage and broker do not fail
NextNoFailure ==
  \/ PublishOrder
  \/ OrderLoop(owner) /\ NoFailure(owner)

SpecNoFailure == InitStocked /\ [][NextNoFailure]_vars

\* the loop is scheduled fairly
FairNoFailure ==
  /\ SpecNoFailure
  /\ WF_vars(OrderLoop(owner) /\ NoFailure(owner))

\* the outcome listeners of order-service, fed by the order loop of one
\* replica and by other producers on the outcome topics
NextListeners ==
  \/ /\ Len(orderTopic) < MaxRedeliveryMsgs
     /\ sendOrderCreatedEvent("A", 1)
  \/ OrderLoop(owner)
  \/ \E topic \in {orderSucceededTopic, orderFailedTopic},
        message \in StrayOutcomes : PublishStrayOutcome(topic, message)
  \/ handleOrderSucceeded
  \/ handleOrderFailed

SpecListeners == InitStocked /\ [][NextListeners]_vars

\* the listener container hands every message of its topic to the listener
FairListeners ==
  /\ SpecListeners
  /\ WF_vars(handleOrderSucceeded)
  /\ WF_vars(handleOrderFailed)

\* ---------------------------------------------------------------- claims

\* the decodable order-created events published so far, by order id
OrderEvent(o) ==
  orderTopic[CHOOSE i \in 1..Len(orderTopic) :
               orderTopic[i].decodable /\ orderTopic[i].orderId = o]

PlacedOrders ==
  {orderTopic[i].orderId : i \in {j \in 1..Len(orderTopic) : orderTopic[j].decodable}}

RECURSIVE SumQuantity(_)
SumQuantity(orders) ==
  IF orders = {} THEN 0
  ELSE LET o == CHOOSE x \in orders : TRUE
       IN OrderEvent(o).quantity + SumQuantity(orders \ {o})

\* orders against an item whose decrement has been committed
SucceededOrders(albumId) ==
  {o \in PlacedOrders : OrderEvent(o).albumId = albumId /\ outcomes[o].succeeded > 0}

\* outcome events on the two topics for an order id
RECURSIVE CopiesFor(_, _, _)
CopiesFor(o, topic, events) ==
  IF events = {} THEN 0
  ELSE LET e == CHOOSE x \in events : TRUE
       IN (IF e.orderId = o THEN CopiesIn(e, topic) ELSE 0)
            + CopiesFor(o, topic, events \ {e})

PublishedCount(o) ==
  CopiesFor(o, succeededTopic, BagToSet(succeededTopic))
  + CopiesFor(o, failedTopic, BagToSet(failedTopic))

InFlight(r) == pc[r] \in {"update", "txcommit", "sendSucceeded", "sendFailed"}

\* C1: without an administrative override, no interleaving of
\* processOrderCreated runs (redeliveries, concurrent replicas, any requested
\* quantity) takes an item's quantity_available below zero.
C1_NonNegativity ==
  \A a \in DOMAIN inventory : inventory[a] >= 0

\* C1 witness: one order was deducted twice (redelivery) and the stock is
\* exhausted.
C1_Witness ==
  /\ \E o \in OrderIds : outcomes[o].succeeded >= 2
  /\ "A" \in DOMAIN inventory
  /\ inventory["A"] = 0
  /\ faults > 0

\* C2: for concurrently processed orders against one item, the requested
\* quantities of the orders resolved to Success (decrement committed) sum to
\* at most the starting stock, and every order whose processing returned nil
\* without Success was resolved to Failure (exactly one of the two).
C2_Conservation ==
  /\ \A a \in DOMAIN startStock :
       SumQuantity(SucceededOrders(a)) <= startStock[a]
  /\ \A i \in 1..delivered :
       (/\ orderTopic[i].decodable
        /\ i \notin pendingRetry
        /\ \A r \in Replicas : msgIdx[r] = i => ~InFlight(r))
       => outcomes[orderTopic[i].orderId].succeeded
            + outcomes[orderTopic[i].orderId].failed = 1

\* C2 witness: two replicas hold two orders for item A at the same time whose
\* quantities together exceed the stock; one has succeeded, the other is on
\* the failure branch.
C2_Witness ==
  \E r1, r2 \in Replicas :
    /\ r1 # r2
    /\ pc[r1] = "sendSucceeded"
    /\ pc[r2] = "sendFailed"
    /\ orderTopic[msgIdx[r1]].albumId = "A"
    /\ orderTopic[msgIdx[r2]].albumId = "A"
    /\ orderTopic[msgIdx[r1]].quantity > 0
    /\ orderTopic[msgIdx[r2]].quantity > 0
    /\ orderTopic[msgIdx[r1]].quantity + orderTopic[msgIdx[r2]].quantity
         > startStock["A"]
    /\ orderTopic[msgIdx[r2]].quantity <= startStock["A"]

\* C3: however often the same order-created event is delivered, at most one
\* outcome event is ever published for its order id (the "exactly one" of the
\* claim, in the form a finite run refutes).
C3_ExactlyOneOutcome ==
  \A o \in OrderIds : PublishedCount(o) <= 1

\* C4: processing a redelivered order-created event does not deduct again:
\* the ledger effect of k >= 1 processings of one event is that of one.
C4_IdempotentDeduction ==
  \A o \in PlacedOrders : outcomes[o].succeeded > 1 => OrderEvent(o).quantity = 0

\* C5: a message whose last processing failed in the unit of work stays
\* uncommitted until a later processing of it has resolved it.
C5_TransientNotConsumed ==
  \A i \in pendingRetry : committedOffset < i

\* C6: an undecodable order-created payload is skipped (the run returns nil
\* so the loop commits it, it is not left for a retry, no ledger row, lock or
\* outcome changes), and every decodable message behind it on the topic is
\* eventually handed to processOrderCreated.
C6_PoisonSkipped ==
  /\ [][(/\ pos' = pos + 1
         /\ ~orderTopic[pos'].decodable)
          => /\ pc'[owner] = "commit"
             /\ msgIdx'[owner] = pos'
             /\ pos' \notin pendingRetry'
             /\ UNCHANGED <<inventory, rowLock, succeededTopic, failedTopic,
                            outcomes>>]_vars
  /\ \A i \in 1..MaxOrderMsgs : \A j \in 1..MaxOrderMsgs :
       (/\ j < i
        /\ Len(orderTopic) >= i
        /\ ~orderTopic[j].decodable
        /\ orderTopic[i].decodable)
       ~> (i \in processed)

\* C6 witness: a decodable message behind an undecodable one has been
\* resolved and the undecodable one is committed.
C6_Witness ==
  /\ Len(orderTopic) >= 2
  /\ ~orderTopic[1].decodable
  /\ orderTopic[2].decodable
  /\ {1, 2} \subseteq processed
  /\ committedOffset >= 1
  /\ outcomes[orderTopic[2].orderId].succeeded > 0

\* C7: once a ledger entry exists for an item, a run of
\* processAlbumCreatedEvent on any album-created event for that item leaves
\* the entry's quantity as it was (and leaves every other entry as it was).
C7_IdempotentBootstrap ==
  [][(albumPos' # albumPos)
       => \A a \in DOMAIN inventory :
            a \in DOMAIN inventory' /\ inventory'[a] = inventory[a]]_vars

\* C7 witness: a second album-created event for A, declaring another
\* quantity, has been processed after an order was deducted from A and after
\* an administrative override of A.
C7_Witness ==
  /\ albumPc = "commit"
  /\ albumPos = 2
  /\ albumTopic[1].decodable
  /\ albumTopic[2].decodable
  /\ "A" \in overridden
  /\ \E o \in PlacedOrders : OrderEvent(o).albumId = "A" /\ outcomes[o].succeeded > 0
  /\ inventory["A"] # quantityToInsert(albumTopic[2])

\* C8: a run of processAlbumCreatedEvent that creates the entry of an item
\* creates it with the event's initialQuantity when the field is present and
\* >= 0, and with 0 when it is absent or negative.
C8_BootstrapQuantity ==
  [][(/\ albumPos' # albumPos
      /\ albumPc' = "commit"
      /\ albumTopic[albumPos'].albumId \notin DOMAIN inventory)
       => LET event == albumTopic[albumPos'] IN
          /\ event.albumId \in DOMAIN inventory'
          /\ (event.hasInitialQuantity /\ event.initialQuantity >= 0)
               => inventory'[event.albumId] = event.initialQuantity
          /\ (~event.hasInitialQuantity \/ event.initialQuantity < 0)
               => inventory'[event.albumId] = 0]_vars

\* C8 witness: the entry of A was created at 0 from an event declaring a
\* negative initialQuantity.
C8_Witness ==
  /\ albumPc = "commit"
  /\ albumPos = 1
  /\ albumTopic[1].decodable
  /\ albumTopic[1].hasInitialQuantity
  /\ albumTopic[1].initialQuantity < 0
  /\ "A" \in DOMAIN startStock
  /\ startStock["A"] = 0

\* C9: an order-created event naming an item without a ledger entry takes the
\* zero-rows branch; that branch publishes nothing but an order-failed event
\* with reason INSUFFICIENT_INVENTORY for the order, returns nil so the
\* message is committed, and no step of the run changes the ledger.
C9_UnknownItem ==
  [][\A r \in Replicas :
       /\ (/\ pc[r] = "update"
           /\ orderTopic[msgIdx[r]].albumId \notin DOMAIN inventory
           /\ pc'[r] \notin {"update", "read"})
          => /\ pc'[r] = "sendFailed"
             /\ inventory' = inventory
       /\ (pc[r] = "sendFailed" /\ pc'[r] # "sendFailed")
          => /\ pc'[r] = "commit"
             /\ inventory' = inventory
             /\ succeededTopic' = succeededTopic
             /\ \/ failedTopic' = failedTopic
                \/ \E e \in BagToSet(failedTopic') :
                     /\ failedTopic' = failedTopic (+) SetToBag({e})
                     /\ e.orderId = orderTopic[msgIdx[r]].orderId
                     /\ e.reason = "INSUFFICIENT_INVENTORY"]_vars

\* C9 witness: the order-failed event of an order for B has been published,
\* its message is about to be committed, and B has no ledger entry.
C9_Witness ==
  \E r \in Replicas :
    /\ pc[r] = "commit"
    /\ orderTopic[msgIdx[r]].decodable
    /\ orderTopic[msgIdx[r]].albumId = "B"
    /\ "B" \notin DOMAIN inventory
    /\ \E e \in BagToSet(failedTopic) :
         /\ e.orderId = orderTopic[msgIdx[r]].orderId
         /\ e.reason = "INSUFFICIENT_INVENTORY"
    /\ BagCardinality(failedTopic) = 1
    /\ succeededTopic = EmptyBag

\* C10: with every order processed once, possibly concurrently, and no
\* override, whenever no run is in progress the quantity of an item is its
\* starting quantity minus the requested quantities of the orders resolved
\* to Success, and it is not negative.
C10_StockAccounting ==
  (\A r \in Replicas : ~InFlight(r))
    => \A a \in DOMAIN startStock :
         /\ inventory[a] = startStock[a] - SumQuantity(SucceededOrders(a))
         /\ inventory[a] >= 0

\* C10 witness: two unit orders were processed by two replicas, both
\* succeeded and took the stock of A from 2 to 0.
C10_Witness ==
  /\ \A r \in Replicas : ~InFlight(r)
  /\ startStock["A"] = 2
  /\ inventory["A"] = 0
  /\ Cardinality(SucceededOrders("A")) = 2
  /\ \A o \in SucceededOrders("A") : OrderEvent(o).quantity = 1
  /\ delivered = 2

\* C11: when the quantities requested by the orders placed against an item
\* total at most its starting stock, no run takes the failure branch for any
\* of them, and once all are resolved the quantity is the starting stock
\* minus the total requested.
C11_NoSpuriousFailure ==
  /\ [][SumQuantity(PlacedOrders) <= startStock["A"]
          => \A o \in OrderIds : outcomes'[o].failed = outcomes[o].failed]_vars
  /\ [](( /\ SumQuantity(PlacedOrders) <= startStock["A"]
          /\ delivered = Len(orderTopic)
          /\ pendingRetry = {}
          /\ \A r \in Replicas : ~InFlight(r))
        => inventory["A"] = startStock["A"] - SumQuantity(PlacedOrders))

C13_AllOrNothing ==
  [][\A r \in Replicas :
       LET event == orderTopic[msgIdx[r]] IN
       /\ (pc[r] = "txcommit" /\ pc'[r] = "txcommit")
            => inventory'[event.albumId] = inventory[event.albumId]
       /\ (pc[r] = "txcommit" /\ pc'[r] = "sendSucceeded")
            => /\ DOMAIN inventory' = DOMAIN inventory
               /\ inventory'[event.albumId]
                    = inventory[event.albumId] - event.quantity
               /\ \A a \in DOMAIN inventory \ {event.albumId} :
                    inventory'[a] = inventory[a]
       /\ (pc[r] = "update" /\ pc'[r] = "sendFailed")
            => inventory' = inventory
       /\ (pc[r] = "sendFailed" /\ pc'[r] # "sendFailed")
            => inventory' = inventory]_vars

\* C13 witness: of two orders processed by two replicas, one for two units
\* has succeeded and left the item two units lower, the other has failed.
C13_Witness ==
  \E r1, r2 \in Replicas :
    /\ pc[r1] = "commit"
    /\ pc[r2] = "commit"
    /\ msgIdx[r1] # msgIdx[r2]
    /\ orderTopic[msgIdx[r1]].quantity = 2
    /\ outcomes[orderTopic[msgIdx[r1]].orderId].succeeded = 1
    /\ outcomes[orderTopic[msgIdx[r2]].orderId].failed = 1
    /\ orderTopic[msgIdx[r2]].quantity > 0
    /\ inventory["A"] = startStock["A"] - 2

\* C14: every event on order-failed carries the reason
\* INSUFFICIENT_INVENTORY, for a missing item as for a short stock.
C14_SingleFailureReason ==
  \A e \in BagToSet(failedTopic) : e.reason = "INSUFFICIENT_INVENTORY"

\* C14 witness: order-failed holds the event of an order for B, which has no
\* entry, and the event of an order for A that asked for more than A had.
C14_Witness ==
  \E o1, o2 \in PlacedOrders :
    /\ OrderEvent(o1).albumId = "B"
    /\ "B" \notin DOMAIN inventory
    /\ OrderEvent(o2).albumId = "A"
    /\ OrderEvent(o2).quantity > inventory["A"]
    /\ CopiesFor(o1, failedTopic, BagToSet(failedTopic)) = 1
    /\ CopiesFor(o2, failedTopic, BagToSet(failedTopic)) = 1

\* C15: when the publish of the order-succeeded event fails, the run leaves
\* the committed decrement and every outcome topic as they are and returns
\* nil, so the loop goes on to commit the message; once the run is over no
\* outcome event is published for the order any more.
C15_PublishFailure ==
  [][/\ \A r \in Replicas :
          (/\ pc[r] = "sendSucceeded"
           /\ pc'[r] # "sendSucceeded"
           /\ succeededTopic' = succeededTopic)
          => /\ pc'[r] = "commit"
             /\ msgIdx'[r] = msgIdx[r]
             /\ msgIdx[r] \notin pendingRetry'
             /\ inventory' = inventory
             /\ outcomes' = outcomes
             /\ failedTopic' = failedTopic
     /\ \A o \in PlacedOrders :
          (/\ outcomes[o].succeeded = 1
           /\ \A r \in Replicas :
                msgIdx[r] # 0 /\ orderTopic[msgIdx[r]].orderId = o
                  => pc[r] = "commit")
          => PublishedCount(o)' = PublishedCount(o)]_vars

\* C15 witness: the decrement of order 1 is committed and its message is
\* consumed, and no outcome event exists for order 1.
C15_Witness ==
  /\ Len(orderTopic) >= 1
  /\ orderTopic[1].decodable
  /\ orderTopic[1].quantity > 0
  /\ outcomes[1].succeeded = 1
  /\ inventory["A"] = startStock["A"] - orderTopic[1].quantity
  /\ committedOffset >= 1
  /\ PublishedCount(1) = 0
  /\ pc[owner] = "read"

\* C16: every message on order-succeeded and order-failed carries the
\* header map of the order-created message it was produced for.
C16_TraceRoundTrip ==
  \A e \in BagToSet(succeededTopic) \cup BagToSet(failedTopic) :
    e.headers = OrderEvent(e.orderId).headers

\* C17: under concurrent calls of reserveInventory and runs of
\* processOrderCreated the quantity of an item is never below zero, and a
\* call of reserveInventory deducts only from a stock that holds the
\* requested quantity at the moment of its UPDATE.
C17_ReserveNonNegative ==
  /\ [](\A a \in DOMAIN inventory : inventory[a] >= 0)
  /\ [][\A c \in Callers :
          (reservePc[c] = "update" /\ inventory' # inventory)
            => inventory[reserveArgs[c][1]] >= reserveArgs[c][2]]_vars

\* C18: once the recorded status of an order is SUCCEEDED or FAILED, no step
\* changes it.
C18_TerminalFinal ==
  [][\A o \in OrderIds :
       orderStatus[o] \in {"SUCCEEDED", "FAILED"}
         => orderStatus'[o] = orderStatus[o]]_vars

\* C19: whenever the decrement of an order has been committed, table
\* processed_orders holds a record for the order id.
C19_MarkerWithDecrement ==
  \A o \in OrderIds : outcomes[o].succeeded > 0 => o \in processedOrders

\* C20: every entry of table inventory holds a quantity that is a
\* non-negative integer.
C20_LedgerNonNegative ==
  \A a \in DOMAIN inventory : inventory[a] \in Nat

C22_AlbumParseError ==
  [][(/\ albumPos' = albumPos + 1
      /\ ~albumTopic[albumPos'].decodable)
       => /\ albumErr' = errParseAlbumCreatedEvent
          /\ UNCHANGED <<inventory, rowLock, startStock>>]_vars

\* C22 witness: an undecodable payload has been processed behind an event
\* that created the entry of its album, and the entry is as it was created.
C22_Witness ==
  /\ albumPos = 2
  /\ albumTopic[1].decodable
  /\ ~albumTopic[2].decodable
  /\ albumErr = errParseAlbumCreatedEvent
  /\ albumTopic[1].albumId \in DOMAIN inventory
  /\ inventory[albumTopic[1].albumId] = quantityToInsert(albumTopic[1])

\* C23: an album-created event whose insert failed in the storage layer is
\* not marked as consumed before a later delivery of it has created the
\* ledger entry: every decodable event at or below the committed offset of
\* the album group has its ledger entry.
C23_StorageFailureRedelivered ==
  \A i \in 1..albumCommitted :
    albumTopic[i].decodable => albumTopic[i].albumId \in DOMAIN inventory

\* C24: whatever the interleaving of the album loop and the order loop, an
\* entry is created by a run of processAlbumCreatedEvent only, at the
\* quantity of its event; an order run on an item without an entry updates
\* no row; a run that updates no row found no entry or less than the ordered
\* quantity and leaves the ledger as it was; a committed run deducts the
\* ordered quantity; the entry is never negative and equals the quantity it
\* was created with less the quantities of the orders that succeeded.
C24_CrossTopicOrdering ==
  /\ [](\A a \in DOMAIN inventory :
          /\ inventory[a] >= 0
          /\ a \in DOMAIN startStock
          /\ inventory[a] = startStock[a] - SumQuantity(SucceededOrders(a)))
  /\ [][/\ \A a \in Albums :
             (a \notin DOMAIN inventory /\ a \in DOMAIN inventory')
               => /\ albumPos' = albumPos + 1
                  /\ albumTopic[albumPos'].albumId = a
                  /\ inventory'[a] = quantityToInsert(albumTopic[albumPos'])
        /\ \A o \in PlacedOrders :
             LET event == OrderEvent(o) IN
             /\ outcomes'[o].failed # outcomes[o].failed
                  => /\ \/ event.albumId \notin DOMAIN inventory
                        \/ inventory[event.albumId] < event.quantity
                     /\ inventory' = inventory
             /\ outcomes'[o].succeeded # outcomes[o].succeeded
                  => /\ event.albumId \in DOMAIN inventory
                     /\ inventory'[event.albumId]
                          = inventory[event.albumId] - event.quantity
        /\ (/\ pc[owner] = "update"
            /\ pc'[owner] \notin {"update", "read"}
            /\ orderTopic[msgIdx[owner]].albumId \notin DOMAIN inventory)
             => /\ pc'[owner] = "sendFailed"
                /\ inventory' = inventory]_vars

\* C24 witness: the order for A was run before the entry of A existed and
\* failed, and the album-created event behind it created the entry at the
\* quantity it declares.
C24_Witness ==
  /\ Len(orderTopic) >= 1
  /\ orderTopic[1].decodable
  /\ orderTopic[1].quantity = 1
  /\ outcomes[1].failed = 1
  /\ outcomes[1].succeeded = 0
  /\ albumPos >= 1
  /\ "A" \in DOMAIN inventory
  /\ inventory["A"] = 2

\* C25: a PUT /api/inventory/:albumId of an admin with quantity q that
\* storage does not fail is answered 200 with q, and the entry of the album
\* is q afterwards, whether it existed or not.
C25_UnconditionalOverwrite ==
  [][(/\ lastExchange' # lastExchange
      /\ lastExchange'.route = putInventoryRoute
      /\ lastExchange'.clientType = "admin"
      /\ lastExchange'.status # 500)
       => /\ lastExchange'.status = 200
          /\ lastExchange'.quantityAvailable = lastExchange'.quantity
          /\ lastExchange'.albumId \in DOMAIN inventory'
          /\ inventory'[lastExchange'.albumId] = lastExchange'.quantity]_vars

\* C26: a PUT /api/inventory/:albumId or GET /api/inventory whose Client-Type
\* is not "admin" is answered 403 and changes no entry of the ledger.
C26_AdminGate ==
  [][(/\ lastExchange' # lastExchange
      /\ lastExchange'.route \in {putInventoryRoute, getAllInventoryRoute}
      /\ lastExchange'.clientType # "admin")
       => /\ lastExchange'.status = 403
          /\ inventory' = inventory]_vars

\* C26 witness: a user's PUT for an album without an entry has been answered
\* 403 and the album has no entry.
C26_Witness ==
  /\ lastExchange.route = putInventoryRoute
  /\ lastExchange.clientType = "user"
  /\ lastExchange.quantity = 1
  /\ lastExchange.status = 403
  /\ lastExchange.albumId \notin DOMAIN inventory

\* C27: GET /api/inventory/:albumId changes no entry of the ledger; for an
\* album without an entry it is answered 200 with quantityAvailable 0 unless
\* storage fails; and an album-created event that creates the entry
\* afterwards creates it at its quantityToInsert.
C27_ReadUnknownItem ==
  [][/\ (/\ lastExchange' # lastExchange
         /\ lastExchange'.route = getInventoryRoute)
          => /\ inventory' = inventory
             /\ (/\ lastExchange'.albumId \notin DOMAIN inventory
                 /\ lastExchange'.status # 500)
                  => /\ lastExchange'.status = 200
                     /\ lastExchange'.quantityAvailable = 0
     /\ \A a \in Albums :
          (/\ a \notin DOMAIN inventory
           /\ a \in DOMAIN inventory'
           /\ albumPos' # albumPos)
            => inventory'[a] = quantityToInsert(albumTopic[albumPos'])]_vars

\* C27 witness: the last request answered was a GET for A that reported
\* quantity 0, and the entry of A has since been created at 2 by an
\* album-created event.
C27_Witness ==
  /\ lastExchange.route = getInventoryRoute
  /\ lastExchange.albumId = "A"
  /\ lastExchange.status = 200
  /\ lastExchange.quantityAvailable = 0
  /\ "A" \in DOMAIN inventory
  /\ inventory["A"] = 2
  /\ "A" \notin overridden

\* C28: a POST /api/orders of a user for more than the available quantity of
\* the album is answered with a 4xx status.
C28_ShortageRejected ==
  [][(/\ lastExchange' # lastExchange
      /\ lastExchange'.route = createOrderRoute
      /\ lastExchange'.clientType = "user"
      /\ lastExchange'.albumId \in DOMAIN inventory
      /\ lastExchange'.quantity > inventory[lastExchange'.albumId])
       => lastExchange'.status \in 400..499]_vars

\* C29: a POST /api/orders of a user with no albumId or a quantity that is
\* not positive is answered 400, and no order is saved or published for it.
C29_InvalidOrderRejected ==
  [][(/\ lastExchange' # lastExchange
      /\ lastExchange'.route = createOrderRoute
      /\ lastExchange'.clientType = "user"
      /\ \/ lastExchange'.albumId = NoAlbum
         \/ lastExchange'.quantity <= 0)
       => /\ lastExchange'.status = 400
          /\ orderTopic' = orderTopic]_vars

C32_OneOutcomePerProcessing ==
  [][\A r \in Replicas :
       LET event == orderTopic[msgIdx[r]]
           succeededEvent ==
             sendOrderEvent(event.orderId, "", orderSucceededTopic)
           failedEvent ==
             sendOrderEvent(event.orderId, "INSUFFICIENT_INVENTORY",
                            orderFailedTopic)
       IN
       /\ (pc[r] = "update" /\ pc'[r] = "txcommit")
            => RowMatches(event.albumId, event.quantity)
       /\ (pc[r] = "update" /\ pc'[r] = "sendFailed")
            => ~RowMatches(event.albumId, event.quantity)
       /\ (pc[r] # "sendSucceeded" /\ pc'[r] = "sendSucceeded")
            => pc[r] = "txcommit"
       /\ (pc[r] # "sendFailed" /\ pc'[r] = "sendFailed")
            => pc[r] = "update"
       /\ (InFlight(r) /\ pc'[r] = "commit")
            => pc[r] \in {"sendSucceeded", "sendFailed"}
       /\ (pc[r] = "sendSucceeded" /\ pc'[r] # "sendSucceeded")
            => /\ pc'[r] = "commit"
               /\ failedTopic' = failedTopic
               /\ succeededTopic' \in
                    {succeededTopic,
                     succeededTopic (+) SetToBag({succeededEvent})}
       /\ (pc[r] = "sendFailed" /\ pc'[r] # "sendFailed")
            => /\ pc'[r] = "commit"
               /\ succeededTopic' = succeededTopic
               /\ failedTopic' \in
                    {failedTopic, failedTopic (+) SetToBag({failedEvent})}
    ]_vars

\* two runs have returned nil, one after its order-succeeded event and one
\* after its order-failed event
C32_Witness ==
  /\ \E r \in Replicas :
       /\ pc[r] = "commit"
       /\ \E e \in BagToSet(failedTopic) :
            e.orderId = orderTopic[msgIdx[r]].orderId
  /\ \E e \in BagToSet(succeededTopic) :
       /\ PublishedCount(e.orderId) = 1
       /\ outcomes[e.orderId] = [succeeded |-> 1, failed |-> 0]
  /\ \A o \in PlacedOrders : PublishedCount(o) = 1
  /\ Cardinality(PlacedOrders) = 2

\* C33: an order-created message whose run of processOrderCreated returned a
\* storage error is eventually processed again and its order reaches an
\* outcome, when the loop is scheduled fairly.
C33_TransientRetried ==
  \A i \in 1..MaxOrderMsgs :
    (i \in pendingRetry)
      ~> (/\ i \notin pendingRetry
          /\ i <= Len(orderTopic)
          /\ orderTopic[i].decodable
          /\ outcomes[orderTopic[i].orderId].succeeded
               + outcomes[orderTopic[i].orderId].failed > 0)

\* C34: under fair delivery of the outcome topics, a saved order with an
\* order-succeeded event on the topic eventually has the status SUCCEEDED and
\* one with an order-failed event eventually has the status FAILED; and an
\* order whose only outcome events are order-failed is never SUCCEEDED, one
\* whose only outcome events are order-succeeded never FAILED.
C34_StatusFollowsOutcome ==
  /\ \A o \in OrderIds :
       (/\ o \in PlacedOrders
        /\ \E e \in BagToSet(succeededTopic) : e.decodable /\ e.orderId = o)
         ~> (orderStatus[o] = "SUCCEEDED")
  /\ \A o \in OrderIds :
       (/\ o \in PlacedOrders
        /\ \E e \in BagToSet(failedTopic) : e.decodable /\ e.orderId = o)
         ~> (orderStatus[o] = "FAILED")
  /\ [](\A o \in PlacedOrders :
          /\ (\A e \in BagToSet(succeededTopic) : e.orderId # o)
               => orderStatus[o] # "SUCCEEDED"
          /\ (\A e \in BagToSet(failedTopic) : e.orderId # o)
               => orderStatus[o] # "FAILED")

\* C35: while storage and broker do not fail and the loop is scheduled
\* fairly, every message published to order-created is eventually consumed
\* (its offset committed), every decodable one eventually has an outcome event
\* for its order id on the outcome topics, and never more than one.
C35_ResolutionLiveness ==
  /\ \A i \in 1..MaxOrderMsgs :
       (i <= Len(orderTopic)) ~> (committedOffset >= i)
  /\ \A o \in OrderIds :
       (o \in PlacedOrders) ~> (PublishedCount(o) = 1)
  /\ [](\A o \in PlacedOrders : PublishedCount(o) <= 1)

\* every message of a full topic has been consumed, one order has its
\* order-succeeded event and another its order-failed event
C35_Witness ==
  /\ Len(orderTopic) = MaxOrderMsgs
  /\ committedOffset = Len(orderTopic)
  /\ pc[owner] = "read"
  /\ \E e \in BagToSet(succeededTopic) : PublishedCount(e.orderId) = 1
  /\ \E e \in BagToSet(failedTopic) : PublishedCount(e.orderId) = 1
  /\ \A o \in PlacedOrders : PublishedCount(o) = 1

\* C36: a run of processOrderCreated never raises an item's quantity,
\* whatever the quantity of its event, and goes on to the order-succeeded
\* event only after reducing the item's quantity by a requested quantity of
\* at least 1.
C36_NeverAddsStock ==
  [][/\ \A a \in DOMAIN inventory : inventory'[a] <= inventory[a]
     /\ \A r \in Replicas :
          (pc[r] = "txcommit" /\ pc'[r] = "sendSucceeded")
            => LET event == orderTopic[msgIdx[r]] IN
               /\ event.quantity >= 1
               /\ inventory'[event.albumId]
                    = inventory[event.albumId] - event.quantity
    ]_vars

\* C37: a run of processOrderCreated that returns an error (from BeginTx,
\* the UPDATE, RowsAffected or Commit) changes no ledger row and no outcome
\* topic and leaves no row locked, and no outcome event has been attempted or
\* published for the order of a message whose only run returned an error.
C37_StorageErrorNoEffect ==
  /\ [](\A i \in pendingRetry :
          LET o == orderTopic[i].orderId IN
          /\ PublishedCount(o) = 0
          /\ outcomes[o] = [succeeded |-> 0, failed |-> 0])
  /\ [][(pendingRetry' # pendingRetry /\ pendingRetry \subseteq pendingRetry')
          => /\ inventory' = inventory
             /\ succeededTopic' = succeededTopic
             /\ failedTopic' = failedTopic
             /\ outcomes' = outcomes
             /\ \A r \in Replicas :
                  pc'[r] = "read" => \A a \in Albums : rowLock'[a] # r
       ]_vars

\* one run has returned an error after another run committed a decrement
\* and published its order-succeeded event
C37_Witness ==
  /\ pendingRetry # { }
  /\ \E o \in PlacedOrders :
       /\ outcomes[o].succeeded = 1
       /\ PublishedCount(o) = 1
       /\ OrderEvent(o).quantity >= 1
  /\ inventory["A"] < startStock["A"]
  /\ \A r \in Replicas : pc[r] = "read"

\* C38: handling an outcome message that is undecodable, carries an order id
\* that is not a number, or names an order the order store does not hold
\* creates and changes no order record; the message is consumed, and every
\* message of the two outcome topics is eventually handled.
C38_ListenersNeverBlock ==
  /\ [][\A m \in StrayOutcomes :
          (\/ succeededHandled' = succeededHandled (+) SetToBag({m})
           \/ failedHandled' = failedHandled (+) SetToBag({m}))
            => orderStatus' = orderStatus]_vars
  /\ []<>(/\ succeededHandled = succeededTopic
          /\ failedHandled = failedTopic)

\* an undecodable message and one with a non-numeric order id have been
\* consumed from order-succeeded, and the order-succeeded event of a saved
\* order on the same topic has been handled and has set its status
C38_Witness ==
  /\ CopiesIn(UndecodableOutcome, succeededHandled) = 1
  /\ CopiesIn(ForeignOutcome(NotANumber), succeededHandled) = 1
  /\ \E e \in BagToSet(succeededHandled) :
       /\ e \notin StrayOutcomes
       /\ e.orderId \in PlacedOrders
       /\ orderStatus[e.orderId] = "SUCCEEDED"

====
